---- MODULE Spec2Model ----
(***************************************************************************)
(* windtools.io.binary.BinaryFile: a wrapper around a binary file handle   *)
(* with typed reads and writes built on struct.pack / struct.unpack.       *)
(*                                                                         *)
(* The state is the file on disk (a sequence of bytes), the handle         *)
(* self.f (its mode, whether it is closed, its position), the progress of  *)
(* a `with` statement around the object, and the outcome of the last       *)
(* method call.  One action per method of the class.                       *)
(***************************************************************************)
EXTENDS Integers, Sequences, FiniteSets, TLC

\* ------------------------------------------------------------------ bounds
\* Largest element count N of a read, and longest array given to a write.
MaxN == 2
\* Successful write calls in one behaviour.
MaxWrites == 1

VARIABLES
    file,        \* bytes of the file at self.path
    mode,        \* self.mode: "r", "w" or "a"
    closed,      \* self.f.closed
    pos,         \* self.f.tell()
    scope,       \* the with statement: "none", "in", "exited"
    exc,         \* failure raised inside the with body, pending for __exit__
    propagated,  \* failure that left the with statement ("None": none did)
    exitCloses,  \* calls of self.f.close() made by __exit__ on this object
    nwrites,     \* successful write calls so far
    result,      \* outcome of the last method call
    lastWrite,   \* the last successful typed write (history)
    rl           \* successive readline calls: where they began, what they gave

vars == <<file, mode, closed, pos, scope, exc, propagated, exitCloses,
          nwrites, result, lastWrite, rl>>

Min(a, b) == IF a < b THEN a ELSE b
Max(a, b) == IF a > b THEN a ELSE b

Pow2(n) == 2^n

RECURSIVE Reverse(_)
Reverse(s) == IF s = <<>> THEN <<>> ELSE Reverse(Tail(s)) \o <<Head(s)>>

\* ------------------------------------------------------ Python values
\* A Python int, a Python float (a binary64: sign, biased exponent, the top
\* 23 and the low 29 bits of the mantissa) and a numpy.float32 (a binary32).
\* An int beyond 32 bits is held by its two's complement bytes, most
\* significant first.
PyInt(i) == [t |-> "int", i |-> i]
PyBig(bs) == [t |-> "int", big |-> bs]
PyFloat(s, e, hi, lo) == [t |-> "float", s |-> s, e |-> e, hi |-> hi, lo |-> lo]
NpFloat32(s, e, m) == [t |-> "float32", s |-> s, e |-> e, m |-> m]
NpFloat64(s, e, hi, lo) == [t |-> "float64", s |-> s, e |-> e, hi |-> hi, lo |-> lo]

\* ------------------------------------------------- the platform's file
\* A variant of f_read that serves a closed handle.
f_read_ignoring_closed(p, n) ==
    IF mode # "r" THEN [err |-> "UnsupportedOperation", buf |-> <<>>, pos |-> p]
    ELSE LET q == Min(p + n, Len(file))
         IN  [err |-> "None", buf |-> SubSeq(file, p + 1, q), pos |-> q]

\* self.f.read(n) at position p: the bytes and the position after.
\* A handle not opened for reading refuses before it looks at anything else.
f_read(p, n) ==
    IF mode # "r" THEN [err |-> "UnsupportedOperation", buf |-> <<>>, pos |-> p]
    ELSE IF closed THEN [err |-> "ValueError", buf |-> <<>>, pos |-> p]
    ELSE LET q == Min(p + n, Len(file))
         IN  [err |-> "None", buf |-> SubSeq(file, p + 1, q), pos |-> q]

\* self.f.write(bs): the file and the position after.  Mode "a" writes at the
\* end of the file wherever the position is.
f_write(bs) ==
    IF mode = "r" THEN [err |-> "UnsupportedOperation", file |-> file, pos |-> pos]
    ELSE IF closed THEN [err |-> "ValueError", file |-> file, pos |-> pos]
    ELSE LET at == IF mode = "a" THEN Len(file) ELSE pos
             new == SubSeq(file, 1, at) \o bs
                    \o SubSeq(file, at + Len(bs) + 1, Len(file))
         IN  [err |-> "None", file |-> new, pos |-> at + Len(bs)]

\* ------------------------------------------------------------- struct
\* struct.calcsize('l'): read_int8 reads 8 bytes for each 'l'.
LongSize == 8

\* struct.calcsize of one format character, native mode.
calcsize(code) ==
    CASE code = "b" -> 1
      [] code = "h" -> 2
      [] code = "i" -> 4
      [] code = "l" -> LongSize
      [] code = "f" -> 4
      [] code = "d" -> 8

\* '{:d}c'.format(N): a repeat count and a format character.
Fmt(N, code) == [valid |-> TRUE, n |-> N, code |-> code]
\* A bare format character: one value.
Fmt1(code) == [valid |-> TRUE, n |-> 1, code |-> code]
\* The literal '{:d}b', never formatted: '{' is no struct format character.
FmtUnformatted(code) == [valid |-> FALSE, n |-> 0, code |-> code]

\* Bytes in memory order -> most significant first, and back.
\* sys.byteorder of the host, the order of struct's native mode: the
\* x86-64 Linux host of LongSize.
byteorder == "little"

ToBigEndian(bs) == IF byteorder = "little" THEN Reverse(bs) ELSE bs
FromBigEndian(bs) == IF byteorder = "little" THEN Reverse(bs) ELSE bs

\* Two's complement of v in w bytes, least significant first.
RECURSIVE IntBytesLE(_, _)
IntBytesLE(v, w) ==
    IF w = 0 THEN <<>> ELSE <<v % 256>> \o IntBytesLE(v \div 256, w - 1)

\* -2^(8w-1) <= v < 2^(8w-1).  Every int of the model lies within 32 bits.
IntInRange(v, w) ==
    IF w >= 4 THEN TRUE
    ELSE v >= -Pow2(8 * w - 1) /\ v <= Pow2(8 * w - 1) - 1

\* The signed value of big-endian bytes bs of at most 4 bytes.
RECURSIVE UnsignedBE(_)
UnsignedBE(bs) ==
    IF bs = <<>> THEN 0
    ELSE UnsignedBE(SubSeq(bs, 1, Len(bs) - 1)) * 256 + bs[Len(bs)]

SignedBE(bs) ==
    IF bs[1] >= 128
    THEN UnsignedBE(<<bs[1] - 256>> \o Tail(bs))
    ELSE UnsignedBE(bs)

\* The int held by w big-endian bytes.
IntFromBE(bs) ==
    LET w == Len(bs)
        low == SubSeq(bs, w - 3, w)
        ext == IF low[1] >= 128 THEN 255 ELSE 0
    IN  IF w <= 4 THEN PyInt(SignedBE(bs))
        ELSE IF \A k \in 1..(w - 4) : bs[k] = ext THEN PyInt(SignedBE(low))
        ELSE PyBig(bs)

\* ----------------------------------------------- IEEE 754 conversions
RECURSIVE FloorLog2(_)
FloorLog2(m) == IF m <= 1 THEN 0 ELSE 1 + FloorLog2(m \div 2)

\* binary32 -> binary64 (the C cast behind unpack 'f'): exact.
Widen(x) ==
    IF x.e = 255 THEN PyFloat(x.s, 2047, x.m, 0)
    ELSE IF x.e = 0 /\ x.m = 0 THEN PyFloat(x.s, 0, 0, 0)
    ELSE IF x.e = 0
    THEN LET k == FloorLog2(x.m)
         IN  PyFloat(x.s, k + 874, (x.m - Pow2(k)) * Pow2(23 - k), 0)
    ELSE PyFloat(x.s, x.e + 896, x.m, 0)

\* binary64 -> binary32 (the C cast behind pack 'f' and numpy.float32):
\* round to nearest, ties to even; too large gives infinity, too small a
\* subnormal or zero.
Narrow(x) ==
    LET e32 == x.e - 896
    IN  IF x.e = 2047
        THEN NpFloat32(x.s, 255, IF x.hi = 0 /\ x.lo # 0 THEN Pow2(22) ELSE x.hi)
        ELSE IF x.e = 0 \/ e32 <= -24 THEN NpFloat32(x.s, 0, 0)
        ELSE IF e32 >= 1
        THEN LET up == x.lo > Pow2(28) \/ (x.lo = Pow2(28) /\ x.hi % 2 = 1)
                 m == IF up THEN x.hi + 1 ELSE x.hi
                 e == IF m = Pow2(23) THEN e32 + 1 ELSE e32
             IN  IF e >= 255 THEN NpFloat32(x.s, 255, 0)
                 ELSE NpFloat32(x.s, e, IF m = Pow2(23) THEN 0 ELSE m)
        ELSE LET sh == 1 - e32
                 full == Pow2(23) + x.hi
                 q == full \div Pow2(sh)
                 r == full % Pow2(sh)
                 half == Pow2(sh - 1)
                 up == r > half \/ (r = half /\ (x.lo > 0 \/ q % 2 = 1))
                 m == IF up THEN q + 1 ELSE q
             IN  IF m = Pow2(23) THEN NpFloat32(x.s, 1, 0)
                 ELSE NpFloat32(x.s, 0, m)

\* A Python int as a Python float (what pack 'f' and 'd' do with an int).
IntToFloat(i) ==
    LET a == IF i < 0 THEN -i ELSE i
        k == FloorLog2(a)
        frac == a - Pow2(k)
    IN  IF i = 0 THEN PyFloat(0, 0, 0, 0)
        ELSE IF k <= 23
        THEN PyFloat(IF i < 0 THEN 1 ELSE 0, 1023 + k, frac * Pow2(23 - k), 0)
        ELSE PyFloat(IF i < 0 THEN 1 ELSE 0, 1023 + k, frac \div Pow2(k - 23),
                     (frac % Pow2(k - 23)) * Pow2(52 - k))

\* The bit layouts, most significant byte first.
F32ToBE(x) ==
    << x.s * 128 + x.e \div 2,
       (x.e % 2) * 128 + x.m \div 65536,
       (x.m \div 256) % 256,
       x.m % 256 >>

F32FromBE(b) ==
    NpFloat32(b[1] \div 128,
              (b[1] % 128) * 2 + b[2] \div 128,
              (b[2] % 128) * 65536 + b[3] * 256 + b[4])

F64ToBE(x) ==
    << x.s * 128 + x.e \div 16,
       (x.e % 16) * 16 + x.hi \div Pow2(19),
       (x.hi \div Pow2(11)) % 256,
       (x.hi \div 8) % 256,
       (x.hi % 8) * 32 + x.lo \div Pow2(24),
       (x.lo \div 65536) % 256,
       (x.lo \div 256) % 256,
       x.lo % 256 >>

F64FromBE(b) ==
    PyFloat(b[1] \div 128,
            (b[1] % 128) * 16 + b[2] \div 16,
            (b[2] % 16) * Pow2(19) + b[3] * Pow2(11) + b[4] * 8 + b[5] \div 32,
            (b[5] % 32) * Pow2(24) + b[6] * 65536 + b[7] * 256 + b[8])

\* dtype(val) of read_float: float, numpy.float32 or numpy.float64 of a
\* Python float.
Convert(dtype, val) ==
    CASE dtype = "float" -> val
      [] dtype = "float32" -> Narrow(val)
      [] dtype = "float64" -> NpFloat64(val.s, val.e, val.hi, val.lo)

\* The number a floating value stands for, as a binary64.
NumVal(x) ==
    IF x.t = "float32" THEN Widen(x) ELSE PyFloat(x.s, x.e, x.hi, x.lo)

\* --------------------------------------------- struct.pack / unpack
IsInt(v) == v.t = "int"
IsFloat(v) == v.t = "float"

\* One value under one format character: its bytes in memory order, or
\* struct.error.
PackOne(code, v) ==
    LET w == calcsize(code)
    IN  IF code \in {"b", "h", "i", "l"}
        THEN IF IsInt(v) /\ IntInRange(v.i, w)
             THEN [err |-> "None",
                   bytes |-> FromBigEndian(Reverse(IntBytesLE(v.i, w)))]
             ELSE [err |-> "struct.error", bytes |-> <<>>]
        ELSE LET x == IF IsInt(v) THEN IntToFloat(v.i) ELSE v
             IN  [err |-> "None",
                  bytes |-> FromBigEndian(IF code = "f" THEN F32ToBE(Narrow(x))
                                          ELSE F64ToBE(x))]

RECURSIVE PackAll(_, _)
PackAll(code, vals) ==
    IF vals = <<>> THEN [err |-> "None", bytes |-> <<>>]
    ELSE LET h == PackOne(code, Head(vals))
             t == PackAll(code, Tail(vals))
         IN  IF h.err # "None" THEN h
             ELSE IF t.err # "None" THEN t
             ELSE [err |-> "None", bytes |-> h.bytes \o t.bytes]

\* struct.pack(fmt, *vals)
struct_pack(fmt, vals) ==
    IF ~fmt.valid \/ fmt.n # Len(vals)
    THEN [err |-> "struct.error", bytes |-> <<>>]
    ELSE PackAll(fmt.code, vals)

UnpackOne(code, chunk) ==
    LET b == ToBigEndian(chunk)
    IN  CASE code \in {"b", "h", "i", "l"} -> IntFromBE(b)
          [] code = "f" -> Widen(F32FromBE(b))
          [] code = "d" -> F64FromBE(b)

\* struct.unpack(fmt, buf): a tuple of fmt.n values, or struct.error when the
\* format is malformed or the buffer is not exactly the size it asks for.
struct_unpack(fmt, buf) ==
    LET w == calcsize(fmt.code)
    IN  IF ~fmt.valid \/ Len(buf) # fmt.n * w
        THEN [err |-> "struct.error", vals |-> <<>>]
        ELSE [err |-> "None",
              vals |-> [k \in 1..fmt.n |->
                          UnpackOne(fmt.code, SubSeq(buf, (k - 1) * w + 1, k * w))]]

\* ------------------------------------------------------- BinaryFile
\* What a method call gives back: the exception it raised ("None": it
\* returned), the returned value's shape and content, and the position of
\* the handle after the call.
Raised(e, p) == [err |-> e, shape |-> "none", vals |-> <<>>, raw |-> <<>>, pos |-> p]
Returned(shape, vals, raw, p) ==
    [err |-> "None", shape |-> shape, vals |-> vals, raw |-> raw, pos |-> p]

\* BinaryFile.unpack: struct.error becomes IOError.
unpack(fmt, buf) ==
    LET u == struct_unpack(fmt, buf)
    IN  IF u.err = "struct.error" THEN [err |-> "IOError", vals |-> <<>>] ELSE u

\* BinaryFile.read(N)
read_op(N) ==
    LET r == f_read(pos, N)
    IN  IF r.err # "None" THEN Raised(r.err, pos)
        ELSE Returned("bytes", <<>>, r.buf, r.pos)

\* bytes.decode('utf-8') of at most one byte.
Decode1(buf) ==
    IF buf = <<>> THEN [err |-> "None", s |-> <<>>]
    ELSE IF buf[1] < 128 THEN [err |-> "None", s |-> buf]
    ELSE [err |-> "UnicodeDecodeError", s |-> <<>>]

\* BinaryFile.read_char at position p: one decoded character, or the empty
\* string at the end of the file.
read_char_at(p) ==
    LET r == f_read(p, 1)
        d == Decode1(r.buf)
    IN  IF r.err # "None" THEN Raised(r.err, p)
        ELSE IF d.err # "None" THEN Raised(d.err, r.pos)
        ELSE Returned("str", <<>>, d.s, r.pos)

read_char_op == read_char_at(pos)

\* A variant of readline_loop that returns the line without its newline.
RECURSIVE readline_loop_dropping_newline(_, _)
readline_loop_dropping_newline(s, b) ==
    IF b.err # "None" THEN b
    ELSE IF b.raw \in {<<10>>, <<>>} THEN Returned("str", <<>>, s, b.pos)
    ELSE readline_loop_dropping_newline(s \o b.raw, read_char_at(b.pos))

\* The loop of BinaryFile.readline: s is the string so far, b the character
\* just read.
RECURSIVE readline_loop(_, _)
readline_loop(s, b) ==
    IF b.err # "None" THEN b
    ELSE IF b.raw \in {<<10>>, <<>>} THEN Returned("str", <<>>, s \o b.raw, b.pos)
    ELSE readline_loop(s \o b.raw, read_char_at(b.pos))

readline_op == readline_loop(<<>>, read_char_at(pos))

\* The body shared by the typed integer reads: N == 1 gives the bare value of
\* format fmt1, any other N the first N values of format fmtN.
TypedRead(N, w, fmt1, fmtN) ==
    LET r == f_read(pos, N * w)
        u == unpack(IF N = 1 THEN fmt1 ELSE fmtN, r.buf)
    IN  IF r.err # "None" THEN Raised(r.err, pos)
        ELSE IF u.err # "None" THEN Raised(u.err, r.pos)
        ELSE IF N = 1 THEN Returned("scalar", <<u.vals[1]>>, <<>>, r.pos)
        ELSE Returned("tuple", SubSeq(u.vals, 1, N), <<>>, r.pos)

read_int1_op(N) == TypedRead(N, 1, Fmt1("b"), FmtUnformatted("b"))
\* A variant of read_int2 that reads 4 bytes an element.
read_int2_op_wide(N) == TypedRead(N, 4, Fmt1("h"), Fmt(N, "h"))
read_int2_op(N) == TypedRead(N, 2, Fmt1("h"), Fmt(N, "h"))
read_int4_op(N) == TypedRead(N, 4, Fmt1("i"), Fmt(N, "i"))
read_int8_op(N) == TypedRead(N, 8, Fmt1("l"), Fmt(N, "l"))
read_int_op(N) == read_int4_op(N)
read_double_op(N) == TypedRead(N, 8, Fmt1("d"), Fmt(N, "d"))

\* BinaryFile.read_float(N, dtype): 4 bytes an element, each value given
\* to dtype; a list when N is not 1.
read_float_op(N, dtype) ==
    LET r == TypedRead(N, 4, Fmt1("f"), Fmt(N, "f"))
        conv == [k \in 1..Len(r.vals) |-> Convert(dtype, r.vals[k])]
    IN  IF r.err # "None" THEN r
        ELSE Returned(IF N = 1 THEN "scalar" ELSE "list",
                      SubSeq(conv, 1, Len(conv)), <<>>, r.pos)

read_real4_op(N) == read_float_op(N, "float32")
\* A variant of read_real8 that decodes 8 bytes an element.
read_real8_op_as_double(N) ==
    LET r == TypedRead(N, 8, Fmt1("d"), Fmt(N, "d"))
        conv == [k \in 1..Len(r.vals) |-> Convert("float64", r.vals[k])]
    IN  IF r.err # "None" THEN r
        ELSE Returned(IF N = 1 THEN "scalar" ELSE "list",
                      SubSeq(conv, 1, Len(conv)), <<>>, r.pos)
read_real8_op(N) == read_float_op(N, "float64")

\* str.encode('utf-8') of code points below 2048.
RECURSIVE Encode(_)
Encode(cs) ==
    IF cs = <<>> THEN <<>>
    ELSE (IF Head(cs) < 128 THEN <<Head(cs)>>
          ELSE <<192 + (Head(cs) \div 64), 128 + (Head(cs) % 64)>>) \o Encode(Tail(cs))

\* What a write gives back: the exception, the file and the position after.
\* BinaryFile.write(val): a str is encoded, anything else written as it is.
write_op(val) ==
    IF val.t = "str" THEN f_write(Encode(val.chars)) ELSE f_write(val.b)

\* A variant of write_type that packs and writes one element at a time.
RECURSIVE PackablePrefix(_, _)
PackablePrefix(type, items) ==
    IF items = <<>> \/ PackOne(type, Head(items)).err # "None" THEN <<>>
    ELSE <<Head(items)>> \o PackablePrefix(type, Tail(items))

write_type_by_element(val, type) ==
    LET items == IF val.t = "list" THEN val.items ELSE <<val>>
        good == PackablePrefix(type, items)
        w == f_write(PackAll(type, good).bytes)
    IN  IF Len(good) = Len(items) \/ w.err # "None" THEN w
        ELSE [err |-> "struct.error", file |-> w.file, pos |-> w.pos]

\* BinaryFile.write_type(val, type): the whole value is packed, then written.
write_type(val, type) ==
    LET p == IF val.t = "list"
             THEN struct_pack(Fmt(Len(val.items), type), val.items)
             ELSE struct_pack(Fmt1(type), <<val>>)
    IN  IF p.err # "None" THEN [err |-> p.err, file |-> file, pos |-> pos]
        ELSE f_write(p.bytes)

write_int1_op(val) == write_type(val, "b")
write_int2_op(val) == write_type(val, "h")
write_int4_op(val) == write_type(val, "i")
write_int8_op(val) == write_type(val, "l")
write_int_op(val) == write_int4_op(val)
write_float_op(val) == write_type(val, "f")
write_double_op(val) == write_type(val, "d")

\* ----------------------------------------------------------- inputs
\* The file found at the path by the first BinaryFile: an empty one.  Every
\* other content is written through the class.
InitFiles == { <<>> }

\* The files found at the path by a with statement: an empty one and the
\* text "abc\ndef".
WithFiles == { <<>>, <<97, 98, 99, 10, 100, 101, 102>> }

\* The mode argument, as characters: 'b' is stripped and put back.
ModeArgs == { <<"r">>, <<"r", "b">>, <<"w", "b">>, <<"a">> }

\* mode.strip('b')
RECURSIVE StripLeft(_)
StripLeft(m) == IF m # <<>> /\ Head(m) = "b" THEN StripLeft(Tail(m)) ELSE m
Strip_b(m) == Reverse(StripLeft(Reverse(StripLeft(m))))

\* Failures the body of a with statement may raise on its own.
BodyFailures == {"KeyError", "KeyboardInterrupt"}

ReadCounts == 1..MaxN

List(items) == [t |-> "list", items |-> items]

\* 0.1, which no binary32 holds, and 1.0, which binary32 holds.
Float_0_1 == PyFloat(0, 1019, 5033164, 429496730)
Float_1_0 == PyFloat(0, 1023, 0, 0)

\* Values given to the integer writes: -2 alone, the arrays [], [-2] and
\* [-2, 100, -2, ...] of MaxN elements, and that array with its last element
\* replaced by 300, which is beyond one byte, or by a float, which no integer
\* format packs.
IntRamp(n) == [k \in 1..n |-> IF k % 2 = 1 THEN PyInt(-2) ELSE PyInt(100)]
IntInputs ==
    { PyInt(-2) }
    \cup { List(IntRamp(n)) : n \in {0, 1, MaxN} }
    \cup { List(IntRamp(MaxN - 1) \o <<bad>>) : bad \in {PyInt(300), Float_0_1} }

\* Values given to the float writes: 0.1 alone, the arrays [], [1.0] and
\* [1.0, 0.1, 1.0, ...] of MaxN elements, and the int 2.
FloatRamp(n) == [k \in 1..n |-> IF k % 2 = 1 THEN Float_1_0 ELSE Float_0_1]
FloatInputs == { Float_0_1, PyInt(2) } \cup { List(FloatRamp(n)) : n \in {0, 1, MaxN} }

\* Values given to the raw write: the str "abc\ndef" and the bytes b"\xe9",
\* which are no UTF-8 character.
RawInputs ==
    { [t |-> "str", chars |-> <<97, 98, 99, 10, 100, 101, 102>>],
      [t |-> "bytes", b |-> <<233>>] }

Items(val) == IF val.t = "list" THEN val.items ELSE <<val>>

\* ---------------------------------------------------------- actions
\* The last method call: its kind ("init", "enter", "exit", "close", "read"
\* for every reading method, "write" for every writing method), the
\* exception it raised ("None": it returned) and the shape of what it
\* returned ("bytes", "str", "scalar", "tuple", "list", "self", "none").
Result(kind, err, shape) == [kind |-> kind, err |-> err, shape |-> shape]

NoWrite == [on |-> FALSE, code |-> "none", vals |-> <<>>, scalar |-> FALSE, start |-> 0]
NoLines == [on |-> FALSE, start |-> 0, acc |-> <<>>]

\* open(path, mode + 'b'): "w" truncates, "a" starts at the end.
Opened(m, f0) ==
    [file |-> IF m = "w" THEN <<>> ELSE f0,
     pos |-> IF m = "a" THEN Len(f0) ELSE 0]

\* A call of a reading method whose outcome is o; line says that the method
\* is readline.  A failure inside a with body leaves the body: it is pending
\* for __exit__.
Call(kind, o, line) ==
    /\ exc = "None"
    /\ result' = Result(kind, o.err, o.shape)
    /\ pos' = o.pos
    /\ exc' = IF scope = "in" THEN o.err ELSE "None"
    /\ rl' = IF line /\ o.err = "None"
             THEN [on |-> TRUE,
                   start |-> IF rl.on THEN rl.start ELSE pos,
                   acc |-> (IF rl.on THEN rl.acc ELSE <<>>) \o o.raw]
             ELSE NoLines
    /\ UNCHANGED <<file, mode, closed, scope, propagated, exitCloses,
                   nwrites, lastWrite>>

\* A call of a writing method given val, whose outcome is o; code is the
\* format character of a typed write.
WCall(kind, code, val, o) ==
    /\ exc = "None"
    /\ o.err = "None" => nwrites < MaxWrites
    /\ result' = Result(kind, o.err, "none")
    /\ file' = o.file
    /\ pos' = o.pos
    /\ nwrites' = IF o.err = "None" THEN nwrites + 1 ELSE nwrites
    /\ exc' = IF scope = "in" THEN o.err ELSE "None"
    /\ lastWrite' = IF o.err # "None" THEN lastWrite
                    ELSE IF code = "none" THEN NoWrite
                    ELSE [on |-> TRUE, code |-> code, vals |-> Items(val),
                          scalar |-> val.t # "list",
                          start |-> o.pos - (Len(o.file) - Len(file))]
    /\ rl' = NoLines
    /\ UNCHANGED <<mode, closed, scope, propagated, exitCloses>>

\* BinaryFile(path, mode) on the path again, once the handle before is closed
\* and no with statement is under way.
BinaryFile(m) ==
    /\ closed /\ scope = "none"
    /\ LET o == Opened(Strip_b(m)[1], file)
       IN  /\ file' = o.file
           /\ pos' = o.pos
           /\ lastWrite' = IF Strip_b(m)[1] = "w" THEN NoWrite ELSE lastWrite
    /\ mode' = Strip_b(m)[1]
    /\ closed' = FALSE
    /\ result' = Result("init", "None", "none")
    /\ rl' = NoLines
    /\ UNCHANGED <<scope, exc, propagated, exitCloses, nwrites>>

__enter__ ==
    /\ scope = "none" /\ exc = "None"
    /\ scope' = "in"
    /\ result' = Result("enter", "None", "self")
    /\ rl' = NoLines
    /\ UNCHANGED <<file, mode, closed, pos, exc, propagated, exitCloses,
                   nwrites, lastWrite>>

\* The body of the with statement raises a failure of its own.
body_raises(kind) ==
    /\ scope = "in" /\ exc = "None"
    /\ exc' = kind
    /\ UNCHANGED <<file, mode, closed, pos, scope, propagated, exitCloses,
                   nwrites, result, lastWrite, rl>>

\* A variant of exit_returns: the commented-out `return False`.
exit_returns_False == "False"

\* What __exit__ returns.
exit_returns == "self"

\* bool(x) of what __exit__ returned: an object with neither __bool__ nor
\* __len__ is true.
Truthy(x) == x \notin {"None", "False"}

\* A variant of __exit__ that closes the handle only when the body ended
\* without a failure.
exit_closing_only_when_clean ==
    /\ scope = "in"
    /\ closed' = (IF exc = "None" THEN TRUE ELSE closed)
    /\ exitCloses' = (IF exc = "None" THEN exitCloses + 1 ELSE exitCloses)
    /\ scope' = "exited"
    /\ propagated' = "None"
    /\ exc' = "None"
    /\ result' = Result("exit", exc, "self")
    /\ rl' = NoLines
    /\ UNCHANGED <<file, mode, pos, nwrites, lastWrite>>

\* __exit__(exc_type, exc_value, traceback), called by the with statement
\* when its body ends or raises; the with statement drops the failure when
\* what __exit__ returns is true.
__exit__ ==
    /\ scope = "in"
    /\ closed' = TRUE
    /\ exitCloses' = exitCloses + 1
    /\ scope' = "exited"
    /\ propagated' = IF exc # "None" /\ ~Truthy(exit_returns) THEN exc ELSE "None"
    /\ exc' = "None"
    /\ result' = Result("exit", exc, exit_returns)
    /\ rl' = NoLines
    /\ UNCHANGED <<file, mode, pos, nwrites, lastWrite>>

close ==
    /\ exc = "None"
    /\ closed' = TRUE
    /\ result' = Result("close", "None", "none")
    /\ rl' = NoLines
    /\ UNCHANGED <<file, mode, pos, scope, exc, propagated, exitCloses,
                   nwrites, lastWrite>>

read(N) == Call("read", read_op(N), FALSE)
read_char == Call("read", read_char_op, FALSE)
readline == Call("read", readline_op, TRUE)
read_int1(N) == Call("read", read_int1_op(N), FALSE)
read_int2(N) == Call("read", read_int2_op(N), FALSE)
read_int4(N) == Call("read", read_int4_op(N), FALSE)
read_int8(N) == Call("read", read_int8_op(N), FALSE)
read_int(N) == Call("read", read_int_op(N), FALSE)
read_float(N) == Call("read", read_float_op(N, "float"), FALSE)
read_double(N) == Call("read", read_double_op(N), FALSE)
read_real4(N) == Call("read", read_real4_op(N), FALSE)
read_real8(N) == Call("read", read_real8_op(N), FALSE)

write(val) == WCall("write", "none", val, write_op(val))
write_int(val) == WCall("write", "i", val, write_int_op(val))
write_int1(val) == WCall("write", "b", val, write_int1_op(val))
write_int2(val) == WCall("write", "h", val, write_int2_op(val))
write_int4(val) == WCall("write", "i", val, write_int4_op(val))
write_int8(val) == WCall("write", "l", val, write_int8_op(val))
write_float(val) == WCall("write", "f", val, write_float_op(val))
write_double(val) == WCall("write", "d", val, write_double_op(val))

\* The state after BinaryFile(path, mode) on one of the files.
Constructed(files) ==
    /\ \E f0 \in files, m \in ModeArgs :
         /\ mode = Strip_b(m)[1]
         /\ file = Opened(mode, f0).file
         /\ pos = Opened(mode, f0).pos
    /\ closed = FALSE
    /\ scope = "none"
    /\ exc = "None"
    /\ propagated = "None"
    /\ exitCloses = 0
    /\ nwrites = 0
    /\ result = Result("init", "None", "none")
    /\ lastWrite = NoWrite
    /\ rl = NoLines

Init == Constructed(InitFiles)

\* The methods that read and write.
Methods ==
    \/ \E N \in ReadCounts : read(N)
    \/ read_char
    \/ readline
    \/ \E N \in ReadCounts : read_int1(N)
    \/ \E N \in ReadCounts : read_int2(N)
    \/ \E N \in ReadCounts : read_int4(N)
    \/ \E N \in ReadCounts : read_int8(N)
    \/ \E N \in ReadCounts : read_int(N)
    \/ \E N \in ReadCounts : read_float(N)
    \/ \E N \in ReadCounts : read_double(N)
    \/ \E N \in ReadCounts : read_real4(N)
    \/ \E N \in ReadCounts : read_real8(N)
    \/ \E v \in RawInputs : write(v)
    \/ \E v \in IntInputs : write_int(v)
    \/ \E v \in IntInputs : write_int1(v)
    \/ \E v \in IntInputs : write_int2(v)
    \/ \E v \in IntInputs : write_int4(v)
    \/ \E v \in IntInputs : write_int8(v)
    \/ \E v \in FloatInputs : write_float(v)
    \/ \E v \in FloatInputs : write_double(v)

\* A caller that opens the path, reads and writes, closes, and opens the
\* path again.
Next ==
    \/ \E m \in ModeArgs : BinaryFile(m)
    \/ close
    \/ Methods

Spec == Init /\ [][Next]_vars

\* A caller that uses the object in a with statement:
\*     with BinaryFile(path, mode) as f: ...
NextWith ==
    \/ __enter__
    \/ \E k \in BodyFailures : body_raises(k)
    \/ __exit__
    \/ close
    \/ Methods

InitWith == Constructed(WithFiles)

SpecWith == InitWith /\ [][NextWith]_vars

\* -------------------------------------------------------- properties
IntCodes == {"b", "h", "i", "l"}
Codes == IntCodes \cup {"f", "d"}

\* The width in bytes of each kind of scalar: 1, 2, 4, 8 for the integers,
\* 4 for a float, 8 for a double.
Width(code) ==
    CASE code = "b" -> 1 [] code = "h" -> 2 [] code = "i" -> 4
      [] code = "l" -> 8 [] code = "f" -> 4 [] code = "d" -> 8

\* The read that goes with a typed write.
ReadOp(code, N) ==
    CASE code = "b" -> read_int1_op(N)
      [] code = "h" -> read_int2_op(N)
      [] code = "i" -> read_int4_op(N)
      [] code = "l" -> read_int8_op(N)
      [] code = "f" -> read_float_op(N, "float")
      [] code = "d" -> read_double_op(N)

\* P(n, o) of every typed read called with N: n the width of its scalar
\* times N, o its outcome; and of the raw read as well.
EveryTypedRead(N, P(_, _)) ==
    /\ P(1 * N, read_int1_op(N))
    /\ P(2 * N, read_int2_op(N))
    /\ P(4 * N, read_int4_op(N))
    /\ P(8 * N, read_int8_op(N))
    /\ P(4 * N, read_int_op(N))
    /\ P(4 * N, read_float_op(N, "float"))
    /\ P(8 * N, read_double_op(N))
    /\ P(4 * N, read_real4_op(N))
    /\ P(4 * N, read_real8_op(N))
EveryRead(N, P(_, _)) == EveryTypedRead(N, P) /\ P(1 * N, read_op(N))

Remaining == Len(file) - pos
Readable == ~closed /\ mode = "r"
Writable == ~closed /\ mode # "r"

\* The handle stands where the last typed write began, open for reading.
AtLastWrite == lastWrite.on /\ Readable /\ pos = lastWrite.start

\* C1 as stated: a failure raised inside the with statement is not
\* suppressed: once __exit__ has closed the stream, the same failure
\* propagates to the caller.
C1_FailurePropagates ==
    (result.kind = "exit" /\ result.err # "None") => propagated = result.err

\* C1 amended: a failure raised inside the with statement is suppressed:
\* once __exit__ has closed the stream, no failure propagates to the caller,
\* whatever its kind.
C1_FailureSuppressed ==
    (result.kind = "exit" /\ result.err # "None")
        => (closed /\ scope = "exited" /\ propagated = "None")

C1_Witness ==
    result.kind = "exit" /\ result.err = "KeyboardInterrupt" /\ closed

\* C2: on every way out of the with statement __exit__ closes the handle,
\* once, and the handle stays closed from then on; __enter__ gives back the
\* object itself and leaves the handle as it was.
C2_ExitClosesOnce ==
    /\ [](scope = "exited" => (closed /\ exitCloses = 1))
    /\ [](scope # "exited" => exitCloses = 0)
    /\ [][__enter__ => (/\ closed' = closed /\ pos' = pos /\ file' = file
                        /\ mode' = mode /\ result'.shape = "self")]_vars

C2_Witness ==
    /\ scope = "exited" /\ closed /\ exitCloses = 1
    /\ result.kind = "exit" /\ result.err = "struct.error" /\ nwrites = 1

\* C3 as stated: N >= 1 in-range values written by write_int<w> and read by
\* read_int<w>(N) from where the write began come back as they were: a bare
\* scalar when N = 1, a sequence of N values when N > 1.
C3_RoundTrip ==
    (AtLastWrite /\ lastWrite.code \in IntCodes /\ Len(lastWrite.vals) >= 1) =>
        LET N == Len(lastWrite.vals)
            o == ReadOp(lastWrite.code, N)
        IN  /\ o.err = "None"
            /\ o.shape = (IF N = 1 THEN "scalar" ELSE "tuple")
            /\ o.vals = lastWrite.vals

\* C4 as stated: every read called with N >= 1 on an open stream moves the
\* position by exactly width x N, whatever remains in the stream.
MovesBy(n, o) == o.pos = pos + n
C4_ExactAdvance ==
    Readable => \A N \in ReadCounts : EveryRead(N, MovesBy)

\* C4 amended: every read called with N >= 1 on a stream open for reading
\* moves the position by the smaller of width x N and the bytes that remain,
\* whether it returns or raises; on a stream open for writing or appending
\* it raises and the position stays.
MovesToEnd(n, o) == o.pos = pos + Min(n, Remaining)
RaisesInPlace(n, o) == o.err # "None" /\ o.pos = pos
C4_AdvanceToEnd ==
    /\ Readable => \A N \in ReadCounts : EveryRead(N, MovesToEnd)
    /\ Writable => \A N \in ReadCounts : EveryRead(N, RaisesInPlace)

C4_Witness ==
    /\ Readable /\ result.kind = "read" /\ result.err = "IOError"
    /\ Len(file) = 7 /\ pos = 7

\* C5 as stated: a typed read called with N >= 1 raises IOError, and nothing
\* else, exactly when fewer than width x N bytes remain; with width x N bytes
\* or more it returns.
IOErrorIffShort(n, o) ==
    /\ o.err \in {"None", "IOError"}
    /\ (o.err = "IOError") <=> (Remaining < n)
C5_IOErrorIffShort ==
    Readable => \A N \in ReadCounts : EveryTypedRead(N, IOErrorIffShort)

\* What a read gives back for a written value: the int itself; the double
\* a written float or int stands for; under "f" that double rounded to
\* single precision.
SameValue(code, got, put) ==
    LET d == IF IsInt(put) THEN IntToFloat(put.i) ELSE NumVal(put)
    IN  CASE code \in IntCodes -> got = put
          [] code = "f" -> NumVal(got) = Widen(Narrow(d))
          [] code = "d" -> NumVal(got) = d

Inputs(code) == IF code \in IntCodes THEN IntInputs ELSE FloatInputs

\* The format character packs the value.
Packable(code, v) ==
    IF code \in IntCodes
    THEN IsInt(v) /\ (Width(code) >= 4 \/
                      (v.i >= -(2^(8 * Width(code) - 1))
                       /\ v.i <= 2^(8 * Width(code) - 1) - 1))
    ELSE IsInt(v) \/ IsFloat(v)

\* C6 as stated: a typed write of an array of N >= 0 values appends N x width
\* bytes at the position and moves the position by as much, a scalar width
\* bytes; a read of N scalars of that width from where the write began gives
\* the N written values in order.
C6_ArrayWriteReadBack ==
    /\ Writable =>
         \A code \in Codes : \A v \in Inputs(code) :
             (\A k \in 1..Len(Items(v)) : Packable(code, Items(v)[k])) =>
                 LET o == write_type(v, code)
                     n == Len(Items(v)) * Width(code)
                 IN  /\ o.err = "None"
                     /\ Len(o.file) = Len(file) + n
                     /\ SubSeq(o.file, 1, Len(file)) = file
                     /\ o.pos = pos + n
    /\ AtLastWrite =>
         LET N == Len(lastWrite.vals)
             o == ReadOp(lastWrite.code, N)
         IN  /\ o.err = "None"
             /\ Len(o.vals) = N
             /\ \A k \in 1..N :
                    SameValue(lastWrite.code, o.vals[k], lastWrite.vals[k])

\* The line that starts at position p: up to and with the next newline, or
\* up to the end of the file.
NewlinesFrom(p) == { i \in (p + 1)..Len(file) : file[i] = 10 }
LineAt(p) ==
    IF NewlinesFrom(p) = {} THEN SubSeq(file, p + 1, Len(file))
    ELSE SubSeq(file, p + 1,
                CHOOSE i \in NewlinesFrom(p) : \A j \in NewlinesFrom(p) : i <= j)

SingleByteText == \A i \in 1..Len(file) : file[i] < 128
AbcDef == <<97, 98, 99, 10, 100, 101, 102>>

\* C7: on a stream of single-byte characters readline returns the characters
\* up to and with the next newline, or up to the end of the stream, and the
\* empty string at the end; it moves the position by the length of what it
\* returns; successive calls give, joined, the stream from where they began
\* ("abc\ndef" gives "abc\n", "def", then the empty string).
C7_Readline ==
    /\ (Readable /\ SingleByteText) =>
         /\ readline_op.err = "None"
         /\ readline_op.raw = LineAt(pos)
         /\ readline_op.pos = pos + Len(readline_op.raw)
         /\ pos = Len(file) => readline_op.raw = <<>>
    /\ (Readable /\ file = AbcDef) =>
         /\ pos = 0 => readline_op.raw = <<97, 98, 99, 10>>
         /\ pos = 4 => readline_op.raw = <<100, 101, 102>>
         /\ pos = 7 => readline_op.raw = <<>>
    /\ (rl.on /\ SingleByteText) => rl.acc = SubSeq(file, rl.start + 1, pos)

C7_Witness ==
    /\ rl.on /\ rl.start = 0 /\ rl.acc = AbcDef /\ pos = 7
    /\ result.kind = "read" /\ result.err = "None" /\ result.shape = "str"

\* C8: read_real4(N) and read_real8(N) decode 4 bytes an element as
\* read_float(N) does: from the same stream and position the three consume
\* the same 4 x N bytes, give the same numbers in the same shape and fail in
\* the same cases; only the representation of the numbers differs.
C8_Real4Real8AsFloat ==
    \A N \in ReadCounts :
        LET a == read_float_op(N, "float")
            b == read_real4_op(N)
            c == read_real8_op(N)
        IN  /\ a.err = b.err /\ a.err = c.err
            /\ a.pos = b.pos /\ a.pos = c.pos
            /\ a.shape = b.shape /\ a.shape = c.shape
            /\ a.err = "None" =>
                 /\ a.pos = pos + 4 * N
                 /\ Len(a.vals) = N /\ Len(b.vals) = N /\ Len(c.vals) = N
                 /\ \A k \in 1..N :
                      /\ b.vals[k].t = "float32" /\ c.vals[k].t = "float64"
                      /\ NumVal(b.vals[k]) = NumVal(a.vals[k])
                      /\ NumVal(c.vals[k]) = NumVal(a.vals[k])

C8_Witness ==
    /\ result.kind = "read" /\ result.err = "None" /\ result.shape = "list"
    /\ lastWrite.on /\ lastWrite.code = "f" /\ pos = Len(file) /\ pos >= 8

\* Every reading and every writing call, as made in the current state.
FailsInPlace(o) == o.err # "None" /\ o.pos = pos
ReadsFailInPlace ==
    /\ FailsInPlace(read_char_op)
    /\ FailsInPlace(readline_op)
    /\ \A N \in ReadCounts : EveryRead(N, RaisesInPlace)
WriteOutcomes ==
    { write_op(v) : v \in RawInputs }
    \cup { write_type(v, code) : v \in IntInputs, code \in IntCodes }
    \cup { write_type(v, code) : v \in FloatInputs, code \in {"f", "d"} }

\* C9: the handle is Open after construction; only close() and the end of
\* the with statement close it; nothing opens a closed handle again; every
\* read and every write on a closed handle fails and leaves the content and
\* the position of the stream as they were.
C9_Lifecycle ==
    /\ ~closed
    /\ [][(~closed /\ closed') => result'.kind \in {"close", "exit"}]_vars
    /\ [][closed => closed']_vars
    /\ [](closed =>
            /\ ReadsFailInPlace
            /\ \A o \in WriteOutcomes :
                   o.err # "None" /\ o.file = file /\ o.pos = pos)

C9_Witness ==
    /\ closed /\ scope = "exited" /\ mode = "r" /\ Len(file) = 7 /\ pos = 4
    /\ result.kind = "read" /\ result.err = "ValueError"

\* C10: a typed write is all or nothing: when an element of the value is
\* outside the signed range of the width, or cannot be packed under the
\* format, the call raises and the content and the position of the stream
\* are as before the call; no part of an array is written.
C10_AllOrNothing ==
    \A code \in Codes : \A v \in Inputs(code) :
        LET o == write_type(v, code)
        IN  /\ (\E k \in 1..Len(Items(v)) : ~Packable(code, Items(v)[k]))
                   => o.err = "struct.error"
            /\ o.err # "None" => (o.file = file /\ o.pos = pos)

C10_Witness ==
    /\ Writable /\ result.kind = "write" /\ result.err = "struct.error"
    /\ nwrites = 1 /\ Len(file) > 0 /\ pos = Len(file)
====
